---------------------------- MODULE Spec2Model ----------------------------
(***************************************************************************)
(* Audit event logging subsystem (security/compliance/audit_logger.py).    *)
(*                                                                         *)
(* Two specifications share this module:                                   *)
(*   Spec / FairSpec : the AuditLogger ingestion pipeline (log_event, the  *)
(*       handler fan-out, the bounded queue, the background worker and     *)
(*       shutdown), against the AuditStorage interface;                    *)
(*   StorageSpec     : a synchronous AuditLogger (log_event and its        *)
(*       convenience wrappers) over the two concrete backends,             *)
(*       FileAuditStorage and DatabaseAuditStorage, with retrieval.        *)
(***************************************************************************)
EXTENDS Integers, Sequences, FiniteSets, TLC

VARIABLES
    \* ---- AuditLogger (pipeline) ----
    async_logging,    \* AuditLogger.async_logging
    filters,          \* AuditLogger.filters (list of AuditFilter)
    event_handlers,   \* AuditLogger.event_handlers (list of callables)
    event_queue,      \* queue.Queue contents (event ids, head first)
    unfinished_tasks, \* queue.Queue.unfinished_tasks (put: +1, task_done: -1)
    running,          \* AuditLogger.running
    wpc,              \* position of the worker thread in _process_events
    wevent,           \* the event the worker took from the queue (0: none)
    getWait,          \* seconds the worker has waited in get(timeout=1.0)
    spc,              \* position of the thread calling shutdown()
    joinWait,         \* seconds shutdown has waited in worker_thread.join(5.0)
    pc,               \* per caller thread: position inside log_event
    cur,              \* per caller thread: id of the event being logged
    hidx,             \* per caller thread: index of the handler loop
    \* ---- observation of the pipeline ----
    events,           \* every AuditEvent constructed so far, by event id
    admitted,         \* ids that passed every filter
    calls,            \* per event id: the handler invocations, in order
    handlersAtStart,  \* per event id: handlers registered when dispatch began
    enqueued,         \* ids put on the queue, in arrival order
    dropped,          \* ids dropped because the queue was full
    storeCalls,       \* calls of storage.store_event: <<[e, ok, by]>>
    returned,         \* ids whose log_event returned the event_id
    raisedTo,         \* ids whose log_event raised to its caller
    atShutdown,       \* ids enqueued before shutdown() was called
    lastCall,         \* the last call of an entry point and its outcome
    \* ---- storage backends and wall clock (StorageSpec) ----
    backend,          \* "file" | "db": which AuditStorage the logger owns
    now,              \* wall clock (datetime.utcnow, file mtime), in instants
    compress_old_files, \* FileAuditStorage.compress_old_files
    files,            \* log directory: set of [name, gz, mtime, lines]
    current_file,     \* FileAuditStorage.current_file (the second it names)
    rows,             \* audit_events table: set of rows
    lastCleanup,      \* the last cleanup_old_events call and what it did
    evicted,          \* ids in files that _cleanup_old_files unlinked
    file_lock,        \* file_lock / db_lock: the thread holding it, or "free"
    cleaner           \* the thread running cleanup_old_events: its position

configVars == <<async_logging, filters>>
queueVars == <<event_queue, unfinished_tasks, enqueued>>
workerVars == <<wpc, wevent, getWait>>
shutdownVars == <<running, spc, joinWait, atShutdown>>
callerVars == <<pc, cur, hidx>>
eventVars == <<events, admitted, handlersAtStart>>
outcomeVars == <<dropped, returned, raisedTo>>
pipeVars == <<configVars, event_handlers, queueVars, workerVars, shutdownVars,
              callerVars, eventVars, calls, outcomeVars, storeCalls>>
lockVars == <<file_lock, cleaner>>
storeVars ==
    <<backend, now, compress_old_files, files, current_file, rows, lastCleanup,
      evicted, lockVars>>
vars == <<pipeVars, lastCall, storeVars>>

-----------------------------------------------------------------------------
(* Bounds of the model *)

MaxEvents == 3      \* log_event calls per behaviour
QueueSize == 2      \* AuditLogger(queue_size=...)
MaxStoreFailures == 1 \* store_event calls that report failure
MaxTime == 4        \* the clock stops advancing on its own at MaxTime
TicksPerSecond == 3 \* instants per clock second
MaxFileSize == 2    \* FileAuditStorage(max_file_size=...), in records
MaxFiles == 2       \* FileAuditStorage(max_files=...)
MaxRotationEvents == 5 \* log_event calls of a rotation behaviour
MaxDerivedEvents == 2  \* log_event calls of a derivation behaviour
SecondsPerDay == 1     \* clock seconds per calendar day

(* Program constants *)

GetTimeout == 1     \* event_queue.get(timeout=1.0)
JoinTimeout == 5    \* worker_thread.join(timeout=5.0)
LevelSlots == 5     \* "level IN (?, ?, ?, ?, ?)" and allowed_levels[:5]
ReportLimit == 10000 \* limit of the report's retrieve_events
TopActorsLimit == 10   \* generate_audit_report: [:10] of the sorted actors

Callers == {"t1", "t2"}
DispatchCallers == {"t1"}
HandlerIds == {"h1", "h2"}

-----------------------------------------------------------------------------
(* Sequence helpers *)

Range(s) == {s[i] : i \in 1..Len(s)}

Reverse(s) == [i \in 1..Len(s) |-> s[Len(s) + 1 - i]]

Take(s, n) == SubSeq(s, 1, IF n < Len(s) THEN n ELSE Len(s))

IsPrefix(s, t) == Len(s) <= Len(t) /\ s = SubSeq(t, 1, Len(s))

NoDuplicates(s) == \A i, j \in 1..Len(s) : i # j => s[i] # s[j]

-----------------------------------------------------------------------------
(* Event model *)

\* AuditLevel values
Levels == {"debug", "info", "warning", "error", "critical", "security",
           "compliance"}

IsFinancialCaseSensitive(target) == target = "financial_db"

\* AuditEvent._assign_compliance_frameworks: `"financial" in target.lower()`
IsFinancialTarget(target) == target \in {"financial_db", "Financial_Report"}

AssignComplianceFrameworks(category, target, given) ==
    given
    \cup (IF category \in {"data_access", "data_modification"}
          THEN {"gdpr"} ELSE {})
    \cup (IF IsFinancialTarget(target) \/ category = "system_configuration"
          THEN {"sox"} ELSE {})
    \cup (IF category = "security_event"
          THEN {"iso27001", "soc2", "nist"} ELSE {})
    \cup (IF category = "authentication"
          THEN {"soc2", "iso27001", "pci_dss"} ELSE {})

\* AuditEvent(...) as log_event builds it: __post_init__ derives the tags
MakeEvent(id, ts, a) ==
    [event_id |-> id, timestamp |-> ts, level |-> a.level,
     category |-> a.category, action |-> a.action, actor |-> a.actor,
     target |-> a.target, result |-> a.result,
     compliance_frameworks |->
         AssignComplianceFrameworks(a.category, a.target,
                                    a.compliance_frameworks),
     risk_score |-> a.risk_score]

-----------------------------------------------------------------------------
(* AuditFilter *)

\* level_priority in should_log
LevelPriority(l) ==
    CASE l = "debug" -> 0
      [] l = "info" -> 1
      [] l = "warning" -> 2
      [] l = "error" -> 3
      [] l = "critical" -> 4
      [] l = "security" -> 5
      [] l = "compliance" -> 5

\* AuditFilter.__init__: a criterion left unset is None; None and the empty
\* set are both falsy and the code tests truthiness only, so {} stands for
\* both, and <<>> for time_range=None.
AuditFilter(min_level, categories, actors, exclude, frameworks, time_range) ==
    [min_level |-> min_level, categories |-> categories, actors |-> actors,
     exclude_actors |-> exclude, compliance_frameworks |-> frameworks,
     time_range |-> time_range]

DefaultFilter == AuditFilter("info", {}, {}, {}, {}, <<>>)

LevelRejectsInclusive(e, f) ==
    LevelPriority(e.level) <= LevelPriority(f.min_level)

\* should_log: the severity check
LevelRejects(e, f) == LevelPriority(e.level) < LevelPriority(f.min_level)

ShouldLog(f, e) ==
    /\ ~LevelRejects(e, f)
    /\ (f.categories # {} => e.category \in f.categories)
    /\ (f.actors # {} => e.actor \in f.actors)
    /\ e.actor \notin f.exclude_actors
    /\ (f.compliance_frameworks # {} =>
            e.compliance_frameworks \cap f.compliance_frameworks # {})
    /\ (f.time_range # <<>> =>
            f.time_range[1] <= e.timestamp /\ e.timestamp <= f.time_range[2])

AdmitsAnyFilter(fs, e) == \E i \in 1..Len(fs) : ShouldLog(fs[i], e)

\* log_event: "for filter in self.filters: if not should_log: return"
Admits(fs, e) == \A i \in 1..Len(fs) : ShouldLog(fs[i], e)


-----------------------------------------------------------------------------
(* Inputs of the pipeline specifications *)

NoKwargs == [compliance_frameworks |-> {}, risk_score |-> 0]

\* the positional arguments of log_event, plus the dataclass defaults
LogArgs(level, category, action, actor, target, result) ==
    [level |-> level, category |-> category, action |-> action,
     actor |-> actor, target |-> target, result |-> result,
     compliance_frameworks |-> NoKwargs.compliance_frameworks,
     risk_score |-> NoKwargs.risk_score]

PipeInputs ==
    {LogArgs("info", "data_access", "read", "alice", "records", "success"),
     LogArgs("critical", "security_event", "access_denied", "bob",
             "financial_db", "detected")}

DeliverInputs ==
    {LogArgs("info", "data_access", "read", "alice", "records", "success")}

MinErrorFilter == AuditFilter("error", {}, {}, {}, {}, <<>>)

\* AuditLogger(storage, filters=...): the filter lists the logger is built with
FilterLists ==
    {<<>>, <<DefaultFilter>>, <<MinErrorFilter>>,
     <<DefaultFilter, MinErrorFilter>>, <<MinErrorFilter, DefaultFilter>>}

-----------------------------------------------------------------------------
(* AuditLogger.__init__ *)

\* the pipeline specifications leave the backend behind the AuditStorage
\* interface: store_event is a call that reports True or False
NoCleaner ==
    [pc |-> "idle", older_than |-> 0, target |-> <<>>, removed |-> {},
     outcome |-> "none"]

NoCleanup ==
    [valid |-> FALSE, older_than |-> 0, outcome |-> "none", count |-> 0,
     before |-> {}, removed |-> {}, units |-> 0, failed |-> FALSE,
     repeat |-> FALSE, fresh |-> FALSE]

InitStorage ==
    /\ backend = "file"
    /\ now = 0
    /\ compress_old_files = TRUE
    /\ files = {}
    /\ current_file = 0
    /\ rows = {}
    /\ lastCleanup = NoCleanup
    /\ evicted = {}
    /\ file_lock = "free"
    /\ cleaner = NoCleaner

\* the state after AuditLogger(storage, filters, async_logging, queue_size):
\* with async_logging the worker thread is started and running is True
InitLogger ==
    /\ event_handlers = <<>>
    /\ event_queue = <<>>
    /\ unfinished_tasks = 0
    /\ enqueued = <<>>
    /\ running = async_logging
    /\ wpc = IF async_logging THEN "check" ELSE "none"
    /\ wevent = 0
    /\ getWait = 0
    /\ spc = "idle"
    /\ joinWait = 0
    /\ atShutdown = {}
    /\ pc = [c \in Callers |-> "idle"]
    /\ cur = [c \in Callers |-> 0]
    /\ hidx = [c \in Callers |-> 0]
    /\ events = <<>>
    /\ admitted = {}
    /\ handlersAtStart = <<>>
    /\ calls = <<>>
    /\ dropped = {}
    /\ returned = {}
    /\ raisedTo = {}
    /\ storeCalls = <<>>
    /\ lastCall = [entry |-> "none", kwargs |-> {}, outcome |-> "none"]

\* AuditLogger(storage): no filter, asynchronous delivery (the defaults)
Init ==
    /\ async_logging = TRUE
    /\ filters = <<>>
    /\ InitLogger
    /\ InitStorage

\* AuditLogger(storage, filters=fs, async_logging=True | False)
DispatchInit ==
    /\ async_logging \in BOOLEAN
    /\ filters \in FilterLists
    /\ InitLogger
    /\ InitStorage

-----------------------------------------------------------------------------
(* Registration *)

\* add_event_handler (each callable of HandlerIds is registered at most once)
AddEventHandler(h) ==
    /\ h \notin Range(event_handlers)
    /\ event_handlers' = Append(event_handlers, h)
    /\ UNCHANGED <<configVars, queueVars, workerVars, shutdownVars,
                   callerVars, eventVars, calls, outcomeVars, storeCalls,
                   lastCall, storeVars>>

-----------------------------------------------------------------------------
(* AuditLogger.log_event, one caller thread c *)

\* lines 688-704: construct the event, then apply the filters; a rejected
\* event returns its event_id at once
ConstructAndFilter(c, a) ==
    /\ LET id == Len(events) + 1
           e == MakeEvent(id, now, a)
       IN /\ events' = Append(events, e)
          /\ calls' = Append(calls, <<>>)
          /\ handlersAtStart' = Append(handlersAtStart, Len(event_handlers))
          /\ IF Admits(filters, e)
             THEN /\ admitted' = admitted \cup {id}
                  /\ pc' = [pc EXCEPT ![c] = "handlers"]
                  /\ cur' = [cur EXCEPT ![c] = id]
                  /\ hidx' = [hidx EXCEPT ![c] = 1]
                  /\ UNCHANGED returned
             ELSE /\ returned' = returned \cup {id}
                  /\ UNCHANGED <<admitted, callerVars>>
    /\ UNCHANGED <<configVars, event_handlers, queueVars, workerVars,
                   shutdownVars, dropped, raisedTo, storeCalls>>

\* log_event called directly with its seven arguments and no extra keyword
LogEventBegin(c, a) ==
    /\ pc[c] = "idle"
    /\ Len(events) < MaxEvents
    /\ ConstructAndFilter(c, a)
    /\ UNCHANGED <<lastCall, storeVars>>

\* the registered callables: "h1" returns, "h2" raises on every event
HandlerRaises(h) == h = "h2"

HandlerErrorPropagates == FALSE

\* lines 708-711: "except Exception" around each handler call: a handler
\* that raises is logged and the loop goes on
HandlerErrorIsCaught == TRUE

HandlerAtReversed(hs, i) == hs[Len(hs) + 1 - i]

\* "for handler in self.event_handlers": the i-th handler of the live list
HandlerAt(hs, i) == hs[i]

\* lines 707-711: one iteration of the handler loop
CallHandler(c) ==
    /\ pc[c] = "handlers"
    /\ hidx[c] <= Len(event_handlers)
    /\ calls' = [calls EXCEPT ![cur[c]] =
                    Append(@, HandlerAt(event_handlers, hidx[c]))]
    /\ IF HandlerRaises(HandlerAt(event_handlers, hidx[c]))
          /\ ~HandlerErrorIsCaught
       THEN /\ raisedTo' = raisedTo \cup {cur[c]}
            /\ pc' = [pc EXCEPT ![c] = "idle"]
            /\ cur' = [cur EXCEPT ![c] = 0]
            /\ hidx' = [hidx EXCEPT ![c] = 0]
       ELSE /\ hidx' = [hidx EXCEPT ![c] = @ + 1]
            /\ UNCHANGED <<raisedTo, pc, cur>>
    /\ UNCHANGED <<configVars, event_handlers, queueVars, workerVars,
                   shutdownVars, eventVars, dropped, returned, storeCalls,
                   lastCall, storeVars>>

\* store_event returns True, or False after a write, lock or database error
StoreFailures == Cardinality({i \in 1..Len(storeCalls) : ~storeCalls[i].ok})

StoreOutcome(ok) == ok \/ StoreFailures < MaxStoreFailures

QueueNeverFull(q) == FALSE

\* queue.Queue(maxsize=queue_size).put_nowait: Full when qsize >= maxsize
QueueFull(q) == Len(q) >= QueueSize

QueueFullPropagates == FALSE

\* lines 717-718: "except queue.Full": the event is dropped and logged
QueueFullIsCaught == TRUE

\* lines 714-718 and 722: put_nowait, drop on queue.Full, return event_id
PersistAsync(c) ==
    /\ pc[c] = "handlers"
    /\ hidx[c] > Len(event_handlers)
    /\ async_logging
    /\ IF ~QueueFull(event_queue)
       THEN /\ event_queue' = Append(event_queue, cur[c])
            /\ unfinished_tasks' = unfinished_tasks + 1
            /\ enqueued' = Append(enqueued, cur[c])
            /\ returned' = returned \cup {cur[c]}
            /\ UNCHANGED <<dropped, raisedTo>>
       ELSE /\ dropped' = dropped \cup {cur[c]}
            /\ IF QueueFullIsCaught
               THEN returned' = returned \cup {cur[c]} /\ UNCHANGED raisedTo
               ELSE raisedTo' = raisedTo \cup {cur[c]} /\ UNCHANGED returned
            /\ UNCHANGED queueVars
    /\ pc' = [pc EXCEPT ![c] = "idle"]
    /\ cur' = [cur EXCEPT ![c] = 0]
    /\ hidx' = [hidx EXCEPT ![c] = 0]
    /\ UNCHANGED <<configVars, event_handlers, workerVars, shutdownVars,
                   eventVars, calls, storeCalls, lastCall, storeVars>>

\* lines 719-722: store_event inline; its boolean result is ignored
PersistSync(c, ok) ==
    /\ StoreOutcome(ok)
    /\ pc[c] = "handlers"
    /\ hidx[c] > Len(event_handlers)
    /\ ~async_logging
    /\ storeCalls' = Append(storeCalls, [e |-> cur[c], ok |-> ok, by |-> c])
    /\ returned' = returned \cup {cur[c]}
    /\ pc' = [pc EXCEPT ![c] = "idle"]
    /\ cur' = [cur EXCEPT ![c] = 0]
    /\ hidx' = [hidx EXCEPT ![c] = 0]
    /\ UNCHANGED <<configVars, event_handlers, queueVars, workerVars,
                   shutdownVars, eventVars, calls, dropped, raisedTo,
                   lastCall, storeVars>>

-----------------------------------------------------------------------------
(* The entry points of ingestion: log_event and the six convenience        *)
(* wrappers, called with extra keyword arguments.  Python binds the        *)
(* keywords of a call to the callee's parameters before its body runs: a   *)
(* keyword given twice, or one the callee does not take, is a TypeError    *)
(* raised to the caller.                                                   *)

EntryPoints ==
    {"log_event", "log_authentication", "log_data_access",
     "log_security_event", "log_configuration_change", "log_user_management",
     "log_compliance_event"}

\* the named parameters of log_event (lines 677-685)
LogEventParams ==
    {"level", "category", "action", "actor", "target", "result", "message"}

\* the fields of the AuditEvent dataclass (lines 98-114)
AuditEventFields ==
    LogEventParams \cup
    {"event_id", "timestamp", "details", "source_ip", "user_agent",
     "session_id", "correlation_id", "compliance_frameworks", "risk_score",
     "sensitive_data"}

\* the named parameters of each entry point: a keyword of that name binds
\* to the parameter and never reaches **kwargs
NamedParams(entry) ==
    CASE entry = "log_event" -> LogEventParams
      [] entry = "log_authentication" -> {"actor", "result"}
      [] entry = "log_data_access" -> {"actor", "target", "action", "result"}
      [] entry = "log_security_event" -> {"actor", "target", "message"}
      [] entry = "log_configuration_change" -> {"actor", "target", "details"}
      [] entry = "log_user_management" -> {"actor", "target", "action"}
      [] entry = "log_compliance_event" ->
             {"framework", "actor", "target", "message"}

\* the keywords a wrapper writes out in its call of self.log_event, next to
\* **kwargs
PassedKeywords(entry) ==
    CASE entry = "log_event" -> {}
      [] entry = "log_configuration_change" -> LogEventParams \cup {"details"}
      [] entry = "log_compliance_event" ->
             LogEventParams \cup {"compliance_frameworks"}
      [] OTHER -> LogEventParams

\* the call "self.log_event(level=..., ..., **kwargs)" of a wrapper
WrapperCallRaises(entry, keys) == keys \cap PassedKeywords(entry) # {}

\* the call "AuditEvent(event_id=..., timestamp=..., level=..., ...,
\* **kwargs)" of log_event, lines 688-699
ConstructRaises(keys) ==
    \/ keys \cap ({"event_id", "timestamp"} \cup LogEventParams) # {}
    \/ ~(keys \subseteq AuditEventFields)

BindingRaises(entry, keys) ==
    WrapperCallRaises(entry, keys) \/ ConstructRaises(keys)

\* the extra keywords of the calls, and the value each one carries
KwargKeys == {"action", "compliance_frameworks"}

KwargValue == [action |-> "read", compliance_frameworks |-> {"hipaa"}]

\* a caller passes no extra keyword or one of them
KwargSets == {{}} \cup {{k} : k \in KwargKeys}

\* the positional arguments the callers pass
CallActor == "alice"
CallTarget == "records"
CallResult == "success"
CallAction == "update"
CallFramework == "hipaa"

\* log_authentication(actor, result): the arguments it passes to log_event
LogAuthenticationArgs(actor, result) ==
    LogArgs("security", "authentication",
            IF result = "success" THEN "login" ELSE "access_denied",
            actor, "authentication_system", result)

\* the arguments log_event receives from each entry point
Prefilled(entry) ==
    CASE entry = "log_event" ->
             LogArgs("info", "business_process", CallAction, CallActor,
                     CallTarget, CallResult)
      [] entry = "log_authentication" ->
             LogAuthenticationArgs(CallActor, CallResult)
      [] entry = "log_data_access" ->
             LogArgs("info", "data_access", CallAction, CallActor,
                     CallTarget, CallResult)
      [] entry = "log_security_event" ->
             LogArgs("security", "security_event", "access_denied",
                     CallActor, CallTarget, "detected")
      [] entry = "log_configuration_change" ->
             LogArgs("warning", "system_configuration",
                     "configuration_changed", CallActor, CallTarget,
                     "success")
      [] entry = "log_user_management" ->
             LogArgs("info", "user_management", CallAction, CallActor,
                     CallTarget, "success")
      [] entry = "log_compliance_event" ->
             [LogArgs("compliance", "compliance_event", "approve",
                      CallActor, CallTarget, "logged")
                 EXCEPT !.compliance_frameworks = {CallFramework}]

\* the fields of the event once **kwargs reached AuditEvent(...)
WithKwargs(a, keys) ==
    [a EXCEPT !.compliance_frameworks =
                  IF "compliance_frameworks" \in keys
                  THEN KwargValue.compliance_frameworks ELSE @]

\* a call of an entry point by caller thread c with the extra keywords keys
EntryCall(c, entry, keys) ==
    /\ pc[c] = "idle"
    /\ Len(events) < MaxEvents
    /\ keys \cap NamedParams(entry) = {}
    /\ IF BindingRaises(entry, keys)
       THEN /\ lastCall' = [entry |-> entry, kwargs |-> keys,
                            outcome |-> "TypeError"]
            /\ UNCHANGED pipeVars
       ELSE /\ lastCall' = [entry |-> entry, kwargs |-> keys,
                            outcome |-> "bound"]
            /\ ConstructAndFilter(c, WithKwargs(Prefilled(entry), keys))
    /\ UNCHANGED storeVars

-----------------------------------------------------------------------------
(* AuditLogger._process_events, the worker thread *)

\* line 726: "while self.running"
WorkerCheck ==
    /\ wpc = "check"
    /\ wpc' = IF running THEN "get" ELSE "dead"
    /\ getWait' = 0
    /\ UNCHANGED <<configVars, event_handlers, queueVars, wevent,
                   shutdownVars, callerVars, eventVars, calls, outcomeVars,
                   storeCalls, lastCall, storeVars>>

DequeueNewest(q) == [item |-> q[Len(q)], rest |-> SubSeq(q, 1, Len(q) - 1)]

\* queue.Queue.get: first in, first out
Dequeue(q) == [item |-> Head(q), rest |-> Tail(q)]

\* line 728: get returns an event
WorkerGet ==
    /\ wpc = "get"
    /\ event_queue # <<>>
    /\ wevent' = Dequeue(event_queue).item
    /\ event_queue' = Dequeue(event_queue).rest
    /\ wpc' = "store"
    /\ UNCHANGED <<configVars, event_handlers, unfinished_tasks, enqueued,
                   getWait, shutdownVars, callerVars, eventVars, calls,
                   outcomeVars, storeCalls, lastCall, storeVars>>

\* lines 728, 731-732: get times out after 1.0 s on an empty queue
WorkerGetTimeout ==
    /\ wpc = "get"
    /\ event_queue = <<>>
    /\ getWait >= GetTimeout
    /\ wpc' = "check"
    /\ UNCHANGED <<configVars, event_handlers, queueVars, wevent, getWait,
                   shutdownVars, callerVars, eventVars, calls, outcomeVars,
                   storeCalls, lastCall, storeVars>>

StopsAfterFailedStore(ok) == IF ok THEN "task_done" ELSE "dead"

\* lines 729-730: the result of store_event is not looked at, task_done
\* follows a True and a False alike
AfterStore(ok) == "task_done"

\* line 729: storage.store_event returns True or False (both backends catch
\* every Exception), and the result is ignored
WorkerStore(ok) ==
    /\ StoreOutcome(ok)
    /\ wpc = "store"
    /\ storeCalls' = Append(storeCalls,
                            [e |-> wevent, ok |-> ok, by |-> "worker"])
    /\ wpc' = AfterStore(ok)
    /\ UNCHANGED <<configVars, event_handlers, queueVars, wevent, getWait,
                   shutdownVars, callerVars, eventVars, calls, outcomeVars,
                   lastCall, storeVars>>

\* line 730: task_done, then back to the loop test
WorkerTaskDone ==
    /\ wpc = "task_done"
    /\ unfinished_tasks' = unfinished_tasks - 1
    /\ wevent' = 0
    /\ wpc' = "check"
    /\ UNCHANGED <<configVars, event_handlers, event_queue, enqueued,
                   getWait, shutdownVars, callerVars, eventVars, calls,
                   outcomeVars, storeCalls, lastCall, storeVars>>

Worker ==
    \/ WorkerCheck
    \/ WorkerGet
    \/ WorkerGetTimeout
    \/ \E ok \in BOOLEAN : WorkerStore(ok)
    \/ WorkerTaskDone

-----------------------------------------------------------------------------
(* AuditLogger.shutdown *)

\* lines 738-739: running = False (nothing to do without async logging)
ShutdownCall ==
    /\ spc = "idle"
    /\ IF async_logging
       THEN /\ running' = FALSE
            /\ spc' = "queue_join"
       ELSE /\ spc' = "done"
            /\ UNCHANGED running
    /\ atShutdown' = Range(enqueued)
    /\ UNCHANGED <<configVars, event_handlers, queueVars, workerVars,
                   joinWait, callerVars, eventVars, calls, outcomeVars,
                   storeCalls, lastCall, storeVars>>

\* line 740: event_queue.join() returns once unfinished_tasks is 0; it has
\* no timeout
QueueJoinReturn ==
    /\ spc = "queue_join"
    /\ unfinished_tasks = 0
    /\ spc' = "thread_join"
    /\ joinWait' = 0
    /\ UNCHANGED <<configVars, event_handlers, queueVars, workerVars,
                   running, atShutdown, callerVars, eventVars, calls,
                   outcomeVars, storeCalls, lastCall, storeVars>>

\* line 741: worker_thread.join returns because the worker ended
ThreadJoinReturn ==
    /\ spc = "thread_join"
    /\ wpc = "dead"
    /\ spc' = "done"
    /\ UNCHANGED <<configVars, event_handlers, queueVars, workerVars,
                   running, joinWait, atShutdown, callerVars, eventVars,
                   calls, outcomeVars, storeCalls, lastCall, storeVars>>

\* line 741: worker_thread.join(timeout=5.0) returns because 5 s elapsed
ThreadJoinTimeout ==
    /\ spc = "thread_join"
    /\ wpc # "dead"
    /\ joinWait >= JoinTimeout
    /\ spc' = "done"
    /\ UNCHANGED <<configVars, event_handlers, queueVars, workerVars,
                   running, joinWait, atShutdown, callerVars, eventVars,
                   calls, outcomeVars, storeCalls, lastCall, storeVars>>

Shutdown ==
    \/ ShutdownCall
    \/ QueueJoinReturn
    \/ ThreadJoinReturn
    \/ ThreadJoinTimeout

-----------------------------------------------------------------------------
(* Passage of time, one second per step.  The two timed waits of the code  *)
(* are get(timeout=1.0) and join(timeout=5.0).  The worker's own steps     *)
(* (loop test, dequeue, task_done) and a wait whose condition holds take   *)
(* no time at this granularity; a call of storage.store_event blocks on a  *)
(* lock and on I/O for a time the logger does not bound.                   *)

WorkerWaiting == wpc = "get" /\ event_queue = <<>>

TimePasses ==
    /\ wpc \in {"get", "store", "dead"}
    /\ wpc = "get" => (event_queue = <<>> /\ getWait < GetTimeout)
    /\ spc = "thread_join" => (wpc # "dead" /\ joinWait < JoinTimeout)
    /\ WorkerWaiting \/ spc = "thread_join"

Tick ==
    /\ TimePasses
    /\ getWait' = IF WorkerWaiting THEN getWait + 1 ELSE getWait
    /\ joinWait' = IF spc = "thread_join" THEN joinWait + 1 ELSE joinWait
    /\ UNCHANGED <<configVars, event_handlers, queueVars, wpc, wevent,
                   running, spc, atShutdown, callerVars, eventVars, calls,
                   outcomeVars, storeCalls, lastCall, storeVars>>

-----------------------------------------------------------------------------
(* Spec: delivery.  A logger with asynchronous delivery and no filter or   *)
(* handler registered: caller threads, the worker, shutdown and time.      *)

LogEvent ==
    \/ \E c \in Callers, a \in DeliverInputs : LogEventBegin(c, a)
    \/ \E c \in Callers : PersistAsync(c)

Next == LogEvent \/ Worker \/ Shutdown \/ Tick

Spec == Init /\ [][Next]_vars

\* The worker and the shutdown caller are threads the interpreter keeps
\* scheduling, and time passes.
FairSpec ==
    /\ Spec
    /\ WF_vars(Worker)
    /\ WF_vars(Shutdown)
    /\ WF_vars(Tick)

-----------------------------------------------------------------------------
(* DispatchSpec: admission and dispatch.  A logger built with a filter     *)
(* list, with or without asynchronous delivery; handlers are registered    *)
(* while a caller thread logs; the logger is not shut down.                *)

Dispatch ==
    \/ \E c \in DispatchCallers, a \in PipeInputs : LogEventBegin(c, a)
    \/ \E c \in DispatchCallers : CallHandler(c)
    \/ \E c \in DispatchCallers : PersistAsync(c)
    \/ \E c \in DispatchCallers, ok \in BOOLEAN : PersistSync(c, ok)

Register == \E h \in HandlerIds : AddEventHandler(h)

\* running stays True here, so a get that times out only re-enters get:
\* the worker waits in get until an event arrives
DispatchWorker ==
    \/ WorkerCheck
    \/ WorkerGet
    \/ \E ok \in BOOLEAN : WorkerStore(ok)
    \/ WorkerTaskDone

DispatchNext == Dispatch \/ Register \/ DispatchWorker

DispatchSpec == DispatchInit /\ [][DispatchNext]_vars

-----------------------------------------------------------------------------
(* Serialisation.  A timestamp is written with isoformat() and read back   *)
(* with fromisoformat(); enum members are written as their values, which   *)
(* the model uses as the members' names throughout.                        *)

\* datetime.isoformat(): seconds, then the fraction of the second
IsoFormat(t) == <<t \div TicksPerSecond, t % TicksPerSecond>>

\* datetime.fromisoformat()
FromIsoFormat(s) == s[1] * TicksPerSecond + s[2]

\* comparison of two isoformat strings of the same layout
IsoLeq(s, t) == s[1] < t[1] \/ (s[1] = t[1] /\ s[2] <= t[2])

\* AuditEvent.to_dict / to_json
ToDict(e) == [e EXCEPT !.timestamp = IsoFormat(e.timestamp)]

\* AuditLevel(data['level']): a stored level that is no value of the enum
\* raises ValueError
Decodable(d) == d.level \in Levels

\* AuditEvent(**data) after the enum and timestamp conversions:
\* __post_init__ runs again on the decoded fields
FromDict(d) ==
    [d EXCEPT !.timestamp = FromIsoFormat(d.timestamp),
              !.compliance_frameworks =
                  AssignComplianceFrameworks(d.category, d.target,
                                             d.compliance_frameworks)]

\* the sequences that list every element of S once
Orderings(S) == {s \in [1..Cardinality(S) -> S] : Range(s) = S}

\* "if not filter or filter.should_log(event)" over a list, in order
RECURSIVE SelectEvents(_, _, _)
SelectEvents(es, hasFilter, f) ==
    IF es = <<>> THEN <<>>
    ELSE LET rest == SelectEvents(Tail(es), hasFilter, f)
         IN IF ~hasFilter \/ ShouldLog(f, Head(es))
            THEN <<Head(es)>> \o rest ELSE rest

-----------------------------------------------------------------------------
(* FileAuditStorage.  The log directory is a set of files; a file is named *)
(* by the clock second of its creation, carries ".gz" once compressed, and *)
(* holds one JSON line per event.  Sizes are counted in lines.             *)

\* "log_files.sort(key=lambda f: f.stat().st_mtime, reverse=True)": the
\* orders sort() can leave; files of equal mtime keep the order of glob(),
\* which is the directory's
SortedByMtimeDesc(fs) ==
    {s \in Orderings(fs) :
        \A i, j \in 1..Len(s) : i < j => s[i].mtime >= s[j].mtime}

\* self.current_file.exists()
FileExists(fs, name, gz) == \E f \in fs : f.name = name /\ f.gz = gz

TheFile(fs, name, gz) == CHOOSE f \in fs : f.name = name /\ f.gz = gz

\* _initialize_current_file: "audit_%Y%m%d_%H%M%S.log" of the clock
InitializeCurrentFile(t) == t \div TicksPerSecond

\* _rotate_file_if_needed, the test
RotationNeeded(fs, name) ==
    /\ FileExists(fs, name, FALSE)
    /\ Len(TheFile(fs, name, FALSE).lines) >= MaxFileSize

\* _compress_file: write name.gz (replacing one of that name), unlink name
CompressFile(fs, name, t) ==
    LET f == TheFile(fs, name, FALSE)
    IN {g \in fs : g.name # name}
       \cup {[name |-> name, gz |-> TRUE, mtime |-> t, lines |-> f.lines]}

\* _cleanup_old_files: the directories that can remain, one per order in
\* which sort() leaves files of equal mtime
CleanupOldFiles(fs) ==
    {Range(Take(s, MaxFiles)) : s \in SortedByMtimeDesc(fs)}

\* open(self.current_file, 'a') and write
AppendLine(fs, name, t, line) ==
    IF FileExists(fs, name, FALSE)
    THEN LET f == TheFile(fs, name, FALSE)
         IN (fs \ {f}) \cup {[f EXCEPT !.mtime = t,
                                        !.lines = Append(@, line)]}
    ELSE fs \cup {[name |-> name, gz |-> FALSE, mtime |-> t,
                   lines |-> <<line>>]}

\* the ids of the lines held by a set of files
LinesIds(fs) ==
    UNION {{g.lines[i].event_id : i \in 1..Len(g.lines)} : g \in fs}

\* the directory once _rotate_file_if_needed has closed the full file:
\* compressed when compress_old_files is set, left as it is otherwise
Closed(fs, name, t) ==
    IF compress_old_files THEN CompressFile(fs, name, t) ELSE fs

\* FileAuditStorage.store_event; ok = FALSE is an OSError, of
\* _compress_file during rotation or of the final open or write, caught
\* by "except Exception"
FileStoreEvent(e, ok) ==
    /\ IF RotationNeeded(files, current_file)
       THEN \/ \* _compress_file raised before it wrote anything
               /\ ~ok
               /\ compress_old_files
               /\ UNCHANGED <<files, current_file, evicted>>
            \/ \E kept \in CleanupOldFiles(Closed(files, current_file, now)) :
                /\ current_file' = InitializeCurrentFile(now)
                /\ evicted' = evicted \cup
                       (LinesIds(Closed(files, current_file, now))
                            \ LinesIds(kept))
                /\ files' = IF ok
                            THEN AppendLine(kept, InitializeCurrentFile(now),
                                            now, ToDict(e))
                            ELSE kept
       ELSE /\ current_file' = current_file
            /\ files' = IF ok
                        THEN AppendLine(files, current_file, now, ToDict(e))
                        ELSE files
            /\ UNCHANGED evicted
    /\ UNCHANGED rows

RECURSIVE ReadFiles(_)
\* the decoded lines of the files of a list, file after file, each file
\* from its first line to its last; a line that does not decode raises
\* inside the per-line "try" and is skipped
ReadFiles(fseq) ==
    IF fseq = <<>> THEN <<>>
    ELSE LET good == SelectSeq(Head(fseq).lines, Decodable)
         IN [i \in 1..Len(good) |-> FromDict(good[i])]
            \o ReadFiles(Tail(fseq))

\* FileAuditStorage.retrieve_events: the lists it can return
FileRetrieveEvents(hasFilter, f, limit) ==
    {Take(SelectEvents(ReadFiles(s), hasFilter, f), limit) :
        s \in SortedByMtimeDesc(files)}

\* FileAuditStorage.get_event_count: the lines of all files that decode to
\* an event the filter passes
FileGetEventCount(hasFilter, f) ==
    LET Counted(g) == Len(SelectEvents(ReadFiles(<<g>>), hasFilter, f))
        RECURSIVE Sum(_)
        Sum(fs) == IF fs = {} THEN 0
                   ELSE LET g == CHOOSE g \in fs : TRUE
                        IN Counted(g) + Sum(fs \ {g})
    IN Sum(files)

-----------------------------------------------------------------------------
(* DatabaseAuditStorage.  The table audit_events is a set of rows, one per *)
(* event_id; text columns hold the enum values and the isoformat string.   *)

\* "ORDER BY timestamp DESC": the orders the query can return
OrderByTimestampDesc(rs) ==
    {s \in Orderings(rs) :
        \A i, j \in 1..Len(s) : i < j => IsoLeq(s[j].timestamp, s[i].timestamp)}

\* DatabaseAuditStorage.store_event; ok = FALSE is a sqlite3 error,
\* caught by "except Exception"
DbStoreEvent(e, ok) ==
    /\ rows' = IF ok /\ (\A r \in rows : r.event_id # e.event_id)
               THEN rows \cup {ToDict(e)} ELSE rows
    /\ UNCHANGED <<files, current_file, evicted>>

\* level_hierarchy in retrieve_events
LevelHierarchy(min_level) ==
    CASE min_level = "debug" ->
             <<"COMPLIANCE", "SECURITY", "CRITICAL", "ERROR", "WARNING",
               "INFO", "DEBUG">>
      [] min_level = "info" ->
             <<"COMPLIANCE", "SECURITY", "CRITICAL", "ERROR", "WARNING",
               "INFO">>
      [] min_level = "warning" ->
             <<"COMPLIANCE", "SECURITY", "CRITICAL", "ERROR", "WARNING">>
      [] min_level = "error" ->
             <<"COMPLIANCE", "SECURITY", "CRITICAL", "ERROR">>
      [] min_level = "critical" -> <<"COMPLIANCE", "SECURITY", "CRITICAL">>
      [] min_level = "security" -> <<"COMPLIANCE", "SECURITY">>
      [] min_level = "compliance" -> <<"COMPLIANCE">>

\* "params.extend(allowed_levels[:5])"
LevelParams(f) == Take(LevelHierarchy(f.min_level), LevelSlots)

\* "level IN (?, ?, ?, ?, ?)" bound to fewer than five values:
\* sqlite3.ProgrammingError, caught by "except Exception"
BindingMismatch(f) == Len(LevelParams(f)) # LevelSlots

\* the WHERE clause retrieve_events builds from a filter
DbWhere(f, r) ==
    /\ r.level \in Range(LevelParams(f))
    /\ f.categories # {} => r.category \in f.categories
    /\ f.actors # {} => r.actor \in f.actors
    /\ f.time_range # <<>> =>
           /\ IsoLeq(IsoFormat(f.time_range[1]), r.timestamp)
           /\ IsoLeq(r.timestamp, IsoFormat(f.time_range[2]))

\* DatabaseAuditStorage.retrieve_events: the lists it can return
DbRetrieveEvents(hasFilter, f, limit) ==
    IF hasFilter /\ BindingMismatch(f) THEN {<<>>}
    ELSE LET sel == {r \in rows : ~hasFilter \/ DbWhere(f, r)}
             \* a fetched row that _row_to_event cannot convert raises out
             \* of the loop, and "except Exception" returns []
             Convert(fetched) ==
                 IF \A i \in 1..Len(fetched) : Decodable(fetched[i])
                 THEN [i \in 1..Len(fetched) |-> FromDict(fetched[i])]
                 ELSE <<>>
         IN {Convert(Take(s, limit)) : s \in OrderByTimestampDesc(sel)}

\* the WHERE clause get_event_count builds from a filter: categories and
\* actors only
DbCountWhere(f, r) ==
    /\ f.categories # {} => r.category \in f.categories
    /\ f.actors # {} => r.actor \in f.actors

\* DatabaseAuditStorage.get_event_count: SELECT COUNT(*)
DbGetEventCount(hasFilter, f) ==
    Cardinality({r \in rows : ~hasFilter \/ DbCountWhere(f, r)})

-----------------------------------------------------------------------------
(* AuditLogger over a backend                                              *)

\* self.storage.store_event(event)
StoreEvent(e, ok) ==
    IF backend = "file" THEN FileStoreEvent(e, ok) ELSE DbStoreEvent(e, ok)

\* AuditLogger.get_events: self.storage.retrieve_events(filter, limit)
RetrieveEvents(hasFilter, f, limit) ==
    IF backend = "file" THEN FileRetrieveEvents(hasFilter, f, limit)
    ELSE DbRetrieveEvents(hasFilter, f, limit)

\* AuditStorage.get_event_count(filter) of the backend the logger owns
GetEventCount(hasFilter, f) ==
    IF backend = "file" THEN FileGetEventCount(hasFilter, f)
    ELSE DbGetEventCount(hasFilter, f)

\* AuditLogger.get_events_by_actor
GetEventsByActor(actor, limit) ==
    RetrieveEvents(TRUE, AuditFilter("info", {}, {actor}, {}, {}, <<>>), limit)

StoreErrorPropagates == FALSE

\* store_event of both backends: the body is inside "try", and "except
\* Exception" logs the error and returns False
StoreErrorIsCaught == TRUE

\* log_event without asynchronous delivery and without handlers, from
\* its call to its return: the event takes the clock reading as its
\* timestamp, and the clock has moved on when the call returns
SyncLogEventCore(a, ok, n) ==
    /\ StoreOutcome(ok)
    /\ ~async_logging
    /\ event_handlers = <<>>
    /\ Len(events) < n
    /\ LET id == Len(events) + 1
           e == MakeEvent(id, now, a)
       IN /\ events' = Append(events, e)
          /\ calls' = Append(calls, <<>>)
          /\ handlersAtStart' = Append(handlersAtStart, 0)
          /\ IF Admits(filters, e) /\ ~ok /\ ~StoreErrorIsCaught
             THEN raisedTo' = raisedTo \cup {id} /\ UNCHANGED returned
             ELSE returned' = returned \cup {id} /\ UNCHANGED raisedTo
          /\ IF Admits(filters, e)
             THEN /\ admitted' = admitted \cup {id}
                  /\ storeCalls' = Append(storeCalls,
                                          [e |-> id, ok |-> ok, by |-> "t1"])
                  /\ StoreEvent(e, ok)
             ELSE UNCHANGED <<admitted, storeCalls, files, current_file,
                              rows, evicted>>
    /\ now' = now + 1
    /\ lastCleanup' = [lastCleanup EXCEPT !.fresh = FALSE]
    /\ UNCHANGED <<configVars, event_handlers, queueVars, workerVars,
                   shutdownVars, callerVars, dropped, backend,
                   compress_old_files, lockVars>>

SyncLogEventUpTo(a, ok, n) ==
    SyncLogEventCore(a, ok, n) /\ UNCHANGED lastCall

SyncLogEvent(a, ok) == SyncLogEventUpTo(a, ok, MaxEvents)

\* time passes between two calls
ClockTick ==
    /\ now < MaxTime
    /\ now' = now + 1
    /\ UNCHANGED <<pipeVars, lastCall, backend, compress_old_files, files,
                   current_file, rows, lastCleanup, evicted, lockVars>>

\* the event ids held in a directory and a table
IdsIn(fs, rs) ==
    {r.event_id : r \in rs}
    \cup UNION {{f.lines[i].event_id : i \in 1..Len(f.lines)} : f \in fs}

\* what a cleanup_old_events(older_than) call did, given the directory and
\* the table it leaves
CleanupRecord(older_than, outcome, count, fs, rs, units, failed) ==
    [valid |-> TRUE, older_than |-> older_than, outcome |-> outcome,
     count |-> count, before |-> IdsIn(files, rows),
     removed |-> IdsIn(files, rows) \ IdsIn(fs, rs), units |-> units,
     failed |-> failed,
     repeat |-> lastCleanup.fresh /\ lastCleanup.older_than = older_than,
     fresh |-> ~failed]

\* FileAuditStorage.cleanup_old_events: every file whose mtime is before
\* older_than is unlinked, in the order glob() lists them; the result is
\* the number of files.  Nothing catches an OSError of unlink (failed):
\* it ends the loop and is raised to the caller.  The host's local time
\* is taken to be UTC, so that fromtimestamp(st_mtime) and the caller's
\* utcnow()-based older_than are on one scale.
FileCleanupOldEvents(older_than, failed) ==
    LET candidates == {f \in files : f.mtime < older_than}
    IN /\ failed => candidates # {}
       /\ \E s \in Orderings(candidates) :
             \E k \in (IF failed THEN 1..Len(s) ELSE {Len(s) + 1}) :
                LET gone == Range(Take(s, k - 1))
                IN /\ files' = files \ gone
                   /\ lastCleanup' =
                          CleanupRecord(older_than,
                                        IF failed THEN "raised"
                                                  ELSE "returned",
                                        IF failed THEN 0
                                                  ELSE Cardinality(gone),
                                        files \ gone, rows,
                                        Cardinality(gone), failed)
       /\ UNCHANGED <<current_file, rows>>

\* DatabaseAuditStorage.cleanup_old_events: one DELETE statement and its
\* rowcount; a sqlite3 error (failed) is caught, nothing is deleted and 0
\* is returned
DbCleanupOldEvents(older_than, failed) ==
    LET gone == IF failed THEN {}
                ELSE {r \in rows :
                         ~IsoLeq(IsoFormat(older_than), r.timestamp)}
    IN /\ rows' = rows \ gone
       /\ lastCleanup' =
              CleanupRecord(older_than, "returned", Cardinality(gone),
                            files, rows \ gone, Cardinality(gone), failed)
       /\ UNCHANGED <<files, current_file>>

\* AuditLogger.cleanup_old_events: the cutoff is computed from utcnow()
\* and handed to the backend
CleanupOldEvents(older_than, failed) ==
    /\ pc["t1"] = "idle"
    /\ IF backend = "file" THEN FileCleanupOldEvents(older_than, failed)
       ELSE DbCleanupOldEvents(older_than, failed)
    /\ UNCHANGED <<pipeVars, lastCall, backend, now, compress_old_files,
                   evicted, lockVars>>

\* a stored record is damaged outside the program (a truncated or edited
\* line, a row written by another tool): its level is no longer a value
\* of AuditLevel.  One record at most is damaged.
Damaged(d) == [d EXCEPT !.level = "corrupt"]

CorruptRecord ==
    /\ \A r \in rows : Decodable(r)
    /\ \A g \in files : \A i \in 1..Len(g.lines) : Decodable(g.lines[i])
    /\ \/ \E r \in rows :
             /\ rows' = (rows \ {r}) \cup {Damaged(r)}
             /\ UNCHANGED files
       \/ \E g \in files : \E i \in 1..Len(g.lines) :
             /\ files' = (files \ {g}) \cup
                             {[g EXCEPT !.lines[i] = Damaged(@)]}
             /\ UNCHANGED rows
    /\ UNCHANGED <<pipeVars, lastCall, backend, now, compress_old_files,
                   current_file, lastCleanup, evicted, lockVars>>

-----------------------------------------------------------------------------
(* StorageSpec: one caller logs synchronously on a logger that owns a      *)
(* file backend or a database backend, while time passes.                  *)

StorageInit ==
    /\ async_logging = FALSE
    /\ filters \in {<<>>, <<MinErrorFilter>>}
    /\ InitLogger
    /\ backend \in {"file", "db"}
    /\ compress_old_files \in
           IF backend = "file" THEN BOOLEAN ELSE {TRUE}
    /\ now = 0
    /\ files = {}
    /\ current_file = InitializeCurrentFile(0)
    /\ rows = {}
    /\ lastCleanup = NoCleanup
    /\ evicted = {}
    /\ file_lock = "free"
    /\ cleaner = NoCleaner

\* what the caller logs: the two events of the pipeline specifications
\* and log_authentication("alice", "failure")
StorageInputs == PipeInputs \cup {LogAuthenticationArgs("alice", "failure")}

StorageLog == \E a \in StorageInputs, ok \in BOOLEAN : SyncLogEvent(a, ok)

StorageNext == StorageLog \/ ClockTick

StorageSpec == StorageInit /\ [][StorageNext]_vars

-----------------------------------------------------------------------------
(* FilterSpec: admission by one filter.  The logger is built with a single *)
(* filter, which sets a minimum level or one other criterion, and one      *)
(* caller logs events of every level synchronously; the events take the    *)
(* successive clock readings as timestamps.                                *)

\* AuditFilter() with no argument, a filter per minimum level, and a filter
\* per other criterion
FilterInputs ==
    {DefaultFilter}
    \cup {AuditFilter(l, {}, {}, {}, {}, <<>>) : l \in Levels}
    \cup {AuditFilter("warning", {"security_event"}, {}, {}, {}, <<>>),
          AuditFilter("debug", {}, {"alice"}, {}, {}, <<>>),
          AuditFilter("debug", {}, {}, {"bob"}, {}, <<>>),
          AuditFilter("debug", {}, {}, {}, {"gdpr"}, <<>>),
          AuditFilter("debug", {}, {}, {}, {}, <<1, 1>>)}

\* an event of each level, and the two events of the pipeline
FilterEvents ==
    PipeInputs
    \cup {LogArgs(l, "business_process", "update", "alice", "records",
                  "success") : l \in Levels}

FilterInit ==
    /\ async_logging = FALSE
    /\ filters \in {<<f>> : f \in FilterInputs}
    /\ InitLogger
    /\ backend \in {"file", "db"}
    /\ compress_old_files = TRUE
    /\ now = 0
    /\ files = {}
    /\ current_file = InitializeCurrentFile(0)
    /\ rows = {}
    /\ lastCleanup = NoCleanup
    /\ evicted = {}
    /\ file_lock = "free"
    /\ cleaner = NoCleaner

FilterNext == \E a \in FilterEvents, ok \in BOOLEAN : SyncLogEvent(a, ok)

FilterSpec == FilterInit /\ [][FilterNext]_vars

-----------------------------------------------------------------------------
(* MaintenanceSpec: StorageSpec with retention and damage.  Between the    *)
(* caller's log_event calls, cleanup_old_events is called with a cutoff    *)
(* that is not in the future, a deletion may fail, and a stored record may *)
(* be damaged.                                                             *)

MaintenanceLog ==
    \E a \in PipeInputs, ok \in BOOLEAN : SyncLogEvent(a, ok)

Cleanup ==
    \E older_than \in 0..now, failed \in BOOLEAN :
        CleanupOldEvents(older_than, failed)

MaintenanceNext == MaintenanceLog \/ ClockTick \/ Cleanup \/ CorruptRecord

MaintenanceSpec == StorageInit /\ [][MaintenanceNext]_vars

-----------------------------------------------------------------------------
(* EntrySpec: the entry points.  One caller thread calls log_event and the *)
(* wrappers, with and without extra keywords, on a logger without          *)
(* asynchronous delivery.                                                  *)

EntryInit ==
    /\ async_logging = FALSE
    /\ filters \in {<<>>, <<MinErrorFilter>>}
    /\ InitLogger
    /\ InitStorage

Entry ==
    \E c \in DispatchCallers, entry \in EntryPoints, keys \in KwargSets :
        EntryCall(c, entry, keys)

EntryPersist == \E c \in DispatchCallers, ok \in BOOLEAN : PersistSync(c, ok)

EntryNext == Entry \/ EntryPersist

EntrySpec == EntryInit /\ [][EntryNext]_vars

-----------------------------------------------------------------------------
(* Observations shared by the claims *)

\* ids passed to storage.store_event, in call order
StoredSeq == [i \in 1..Len(storeCalls) |-> storeCalls[i].e]

Stored == Range(StoredSeq)

\* the log_event call for id is over (no caller thread is inside it)
Finished(id) == \A c \in Callers : cur[c] # id

\* log_event reached its persistence step for id: put_nowait (which enqueues,
\* or drops on queue.Full) or, without async logging, store_event
Persisted(id) ==
    IF async_logging
    THEN id \in Range(enqueued) \/ id \in dropped
    ELSE \E i \in 1..Len(storeCalls) :
            storeCalls[i].e = id /\ storeCalls[i].by \in Callers

\* every handler registered when dispatch of id began has been invoked
AllHandlersInvoked(id) == Len(calls[id]) >= handlersAtStart[id]

-----------------------------------------------------------------------------
(* C1 *)

\* C1 (as claimed): when shutdown() has returned in async mode, every event
\* enqueued before shutdown() was called has been passed to store_event and
\* the background worker has stopped.
C1_ShutdownDrainsAndStops ==
    (async_logging /\ spc = "done") =>
        /\ atShutdown \subseteq Stored
        /\ wpc = "dead"

-----------------------------------------------------------------------------
(* C2 *)

\* C2 (as claimed): shutdown() always terminates: once it waits for the
\* queue to drain, it eventually returns.
C2_ShutdownTerminates == (spc = "queue_join") ~> (spc = "done")

-----------------------------------------------------------------------------
(* C3 *)

\* C3: every finished log_event call returned the event_id of the event it
\* constructed and none raised: after a filter rejected the event, after a
\* handler raised, after the queue was full and the event was dropped, and
\* after store_event reported failure.
C3_LogEventAlwaysReturnsId ==
    /\ raisedTo = {}
    /\ \A id \in 1..Len(events) :
          Finished(id) => (id \in returned /\ events[id].event_id = id)

\* a dropped event whose handler raised, next to an event a filter rejected
\* or a store_event that failed: all of them returned
C3_Witness ==
    /\ \E id \in dropped : id \in returned /\ "h2" \in Range(calls[id])
    /\ \E id \in returned : "h2" \in Range(calls[id]) /\ id \in Range(enqueued)

-----------------------------------------------------------------------------
(* C4 *)

\* C4: an event that some registered filter rejects reaches no handler, is
\* not enqueued, not dropped by the queue and never passed to store_event;
\* an event every filter accepts (or with no filter registered) has, when
\* log_event returns, been dispatched to the handlers and handed to
\* persistence (put on the queue by put_nowait, or passed to store_event).
C4_AdmissionRequiresAllFilters ==
    \A id \in 1..Len(events) :
        /\ (\E i \in 1..Len(filters) : ~ShouldLog(filters[i], events[id])) =>
              /\ calls[id] = <<>>
              /\ id \notin Range(enqueued)
              /\ id \notin dropped
              /\ id \notin Stored
              /\ id \in returned
        /\ ((\A i \in 1..Len(filters) : ShouldLog(filters[i], events[id]))
            /\ Finished(id)) =>
              /\ AllHandlersInvoked(id)
              /\ Persisted(id)

\* two filters are registered, one of which rejects an event the other
\* accepts, and another event passed both, reached a handler and was stored
C4_Witness ==
    /\ Len(filters) = 2
    /\ \E id \in 1..Len(events) :
          /\ ShouldLog(DefaultFilter, events[id])
          /\ ~ShouldLog(MinErrorFilter, events[id])
          /\ id \in returned
    /\ \E id \in Stored : calls[id] # <<>> /\ id \in returned

-----------------------------------------------------------------------------
(* C5 *)

\* C5: the queue never holds more than queue_size events; an event that
\* found the queue full is dropped: never enqueued, never stored, its
\* log_event returned without raising; a caller at put_nowait can always
\* take its step, whatever the worker does; and once queue_size+1 admitted
\* events reached put_nowait with the worker not having taken any, at
\* least one was dropped.
C5_OverflowDroppedWithoutBlocking ==
    /\ Len(event_queue) <= QueueSize
    /\ \A id \in dropped :
          /\ id \notin Range(enqueued)
          /\ id \notin Stored
          /\ id \in returned
          /\ id \notin raisedTo
    /\ \A c \in Callers :
          (pc[c] = "handlers" /\ hidx[c] > Len(event_handlers)) =>
              ENABLED PersistAsync(c)
    /\ (Len(enqueued) + Cardinality(dropped) > QueueSize
        /\ Len(event_queue) = Len(enqueued)) => dropped # {}

\* the queue is full, an event was dropped and its log_event returned while
\* the worker was not draining
C5_Witness ==
    /\ Len(event_queue) = QueueSize
    /\ Len(event_queue) = Len(enqueued)
    /\ dropped # {}
    /\ dropped \subseteq returned

-----------------------------------------------------------------------------
(* C6 *)

\* C6: in async mode only the worker thread calls store_event, and the
\* events it passes are, in order, the first events that were enqueued:
\* arrival order, each at most once, also after a store_event that failed.
C6_WorkerStoresInArrivalOrder ==
    async_logging =>
        /\ \A i \in 1..Len(storeCalls) : storeCalls[i].by = "worker"
        /\ IsPrefix(StoredSeq, enqueued)
        /\ NoDuplicates(StoredSeq)

\* a store_event reported failure and the worker went on to store the event
\* enqueued after it
C6_Witness ==
    /\ async_logging
    /\ Len(storeCalls) >= 2
    /\ ~storeCalls[1].ok
    /\ storeCalls[2].e = enqueued[2]

-----------------------------------------------------------------------------
(* C7 *)

\* the invocations for id are the first registered handlers, in order
InRegistrationOrder(id) == IsPrefix(calls[id], event_handlers)

\* C7: for every admitted event the handlers are invoked in registration
\* order; when the event is put on the queue or passed to store_event all
\* handlers registered when its dispatch began have been invoked; and from
\* then on no handler is invoked for it.
C7_HandlersInOrderBeforePersistence ==
    [][/\ \A id \in 1..Len(events') :
             /\ InRegistrationOrder(id)'
             /\ Persisted(id)' => AllHandlersInvoked(id)'
       /\ \A id \in 1..Len(events) :
             Persisted(id) => calls'[id] = calls[id]]_vars

\* an event was persisted after two handlers ran for it, in the order in
\* which they were registered
C7_Witness ==
    \E id \in 1..Len(events) :
        /\ Persisted(id)
        /\ Len(calls[id]) = 2
        /\ calls[id] = event_handlers

-----------------------------------------------------------------------------
(* C8 *)

\* C8: a handler that raises does not stop dispatch: for every finished
\* admitted event every handler registered when dispatch began was invoked,
\* those after a raising handler included, the event was enqueued (or
\* dropped by the full queue) or stored, and nothing was raised to a caller.
C8_HandlerFailureIsolated ==
    /\ raisedTo = {}
    /\ \A id \in admitted :
          Finished(id) =>
              /\ AllHandlersInvoked(id)
              /\ \A i \in 1..Len(calls[id]) :
                    (HandlerRaises(calls[id][i]) /\ i < handlersAtStart[id])
                        => Len(calls[id]) > i
              /\ Persisted(id)
              /\ id \in returned

\* the raising handler ran first, the handler registered after it ran too,
\* and the event was stored
C8_Witness ==
    \E id \in Stored : calls[id] = <<"h2", "h1">> /\ id \in returned

-----------------------------------------------------------------------------
(* C9 *)

\* C9: no call of log_event or of a convenience wrapper raises to its
\* caller, whatever extra keyword arguments the call carries, a keyword
\* that names a field the wrapper fills in itself included.
C9_IngestionNeverRaises == lastCall.outcome # "TypeError" /\ raisedTo = {}

-----------------------------------------------------------------------------
(* C10 *)

\* a filter every event passes
MatchAllFilter == AuditFilter("debug", {}, {}, {}, {}, <<>>)

EventIds(es) == [i \in 1..Len(es) |-> es[i].event_id]

\* the event ids the backend holds
HeldIds ==
    {r.event_id : r \in rows}
    \cup UNION {{f.lines[i].event_id : i \in 1..Len(f.lines)} : f \in files}

\* C10: on a logger without asynchronous delivery, every admitted event of
\* a returned log_event has been passed to store_event, and while the
\* backend holds all the events passed to it, retrieve_events without a
\* filter or with a filter that matches them all returns them newest
\* first, that is in reverse call order, on either backend.
C10_SyncNewestFirst ==
    ~async_logging =>
        /\ \A id \in admitted \cap returned :
               Finished(id) => id \in Stored
        /\ (backend \in {"file", "db"} /\ HeldIds = Stored /\ Stored # {}) =>
               \A hasFilter \in BOOLEAN :
                   \A r \in RetrieveEvents(hasFilter, MatchAllFilter,
                                            Len(events)) :
                       EventIds(r) = Reverse(StoredSeq)

-----------------------------------------------------------------------------
(* C11 *)

\* the filters the queries of the claims are made with
QueryFilters == {MatchAllFilter, DefaultFilter, MinErrorFilter}

\* the ids of the held events that pass the filter (all of them without a
\* filter), the most recently logged first
NewestFirstMatching(hasFilter, f) ==
    LET Match(id) == id \in HeldIds /\ (~hasFilter \/ ShouldLog(f, events[id]))
    IN Reverse(SelectSeq(StoredSeq, Match))

\* C11: retrieve_events(filter, limit) returns at most limit events, and
\* they are the limit most recent events that match the filter, newest
\* first, on either backend.
C11_RetrieveMostRecentUpToLimit ==
    (backend \in {"file", "db"} /\ HeldIds = Stored) =>
        \A hasFilter \in BOOLEAN, f \in QueryFilters, limit \in 0..Len(events) :
            \A r \in RetrieveEvents(hasFilter, f, limit) :
                /\ Len(r) <= limit
                /\ EventIds(r) = Take(NewestFirstMatching(hasFilter, f), limit)

-----------------------------------------------------------------------------
(* C12 *)

\* C12: on either backend, for every filter (and for no filter),
\* get_event_count equals the length of what retrieve_events returns when
\* its limit is at least the number of stored events.
C12_CountAgreesWithRetrieve ==
    backend \in {"file", "db"} =>
        \A hasFilter \in BOOLEAN, f \in QueryFilters :
            \A r \in RetrieveEvents(hasFilter, f, Len(events)) :
                GetEventCount(hasFilter, f) = Len(r)

-----------------------------------------------------------------------------
(* C13 *)

\* filters that set one criterion each, next to the filters of QueryFilters
CriterionFilters ==
    QueryFilters \cup
    {AuditFilter("debug", {"security_event"}, {}, {}, {}, <<>>),
     AuditFilter("debug", {}, {"bob"}, {}, {}, <<>>),
     AuditFilter("debug", {}, {}, {"bob"}, {}, <<>>),
     AuditFilter("debug", {}, {}, {}, {"sox"}, <<>>),
     AuditFilter("debug", {}, {}, {}, {}, <<0, 1>>)}

\* C13: on the database backend, retrieve_events with a filter and a limit
\* no smaller than the table returns exactly the stored events for which
\* the filter's should_log is true, whichever criteria the filter sets.
C13_DbQueryIsShouldLog ==
    backend = "db" =>
        \A f \in CriterionFilters :
            \A r \in DbRetrieveEvents(TRUE, f, Len(events)) :
                Range(EventIds(r)) =
                    {id \in HeldIds : ShouldLog(f, events[id])}

-----------------------------------------------------------------------------
(* C14 *)

\* three events were logged, each by log_authentication("alice",
\* "failure"), and the backend holds the three
ScenarioA ==
    /\ Len(events) = 3
    /\ \A id \in 1..3 :
          /\ events[id].actor = "alice"
          /\ events[id].category = "authentication"
          /\ events[id].result = "failure"
    /\ HeldIds = {1, 2, 3}

\* C14: in scenario A, on either backend, get_events_by_actor("alice",
\* limit=10) returns exactly the three events, newest first, each tagged
\* with SOC2, ISO27001 and PCI_DSS.
C14_ScenarioA ==
    (backend \in {"file", "db"} /\ ScenarioA) =>
        \A r \in GetEventsByActor("alice", 10) :
            /\ EventIds(r) = <<3, 2, 1>>
            /\ \A i \in 1..Len(r) :
                  {"soc2", "iso27001", "pci_dss"}
                      \subseteq r[i].compliance_frameworks

-----------------------------------------------------------------------------
(* C15 *)

\* the events held before the last cleanup whose timestamp is strictly
\* before its cutoff
OlderThanCutoff ==
    {id \in lastCleanup.before :
        events[id].timestamp < lastCleanup.older_than}

\* C15: a cleanup_old_events(older_than=T) in which no deletion failed
\* removes exactly the stored events whose timestamp is strictly before T
\* and returns their number; called again with the same T it returns 0.
C15_CleanupRemovesExactlyOlder ==
    (lastCleanup.valid /\ ~lastCleanup.failed) =>
        /\ lastCleanup.outcome = "returned"
        /\ lastCleanup.removed = OlderThanCutoff
        /\ lastCleanup.count = Cardinality(OlderThanCutoff)
        /\ lastCleanup.repeat => lastCleanup.count = 0

-----------------------------------------------------------------------------
(* C20 *)

\* C20: a cleanup_old_events call in which a deletion fails does not
\* raise, and returns the number of deletions that did succeed.
C20_CleanupSurvivesFailedDeletion ==
    (lastCleanup.valid /\ lastCleanup.failed) =>
        /\ lastCleanup.outcome = "returned"
        /\ lastCleanup.count = lastCleanup.units

-----------------------------------------------------------------------------
(* C16 *)

\* C16: a filter constructed with no argument accepts every event: on a
\* logger whose only filter is AuditFilter(), every logged event, of
\* whatever level (DEBUG included), category and actor, is admitted.
C16_UnsetFilterAcceptsAll ==
    filters = <<DefaultFilter>> =>
        \A id \in 1..Len(events) : id \in admitted

-----------------------------------------------------------------------------
(* C17 *)

\* the severity order as the specification states it
SpecRank ==
    [debug |-> 0, info |-> 1, warning |-> 2, error |-> 3, critical |-> 4,
     security |-> 5, compliance |-> 5]

\* every criterion of the filter, stated on its own
PassesEveryCriterion(f, e) ==
    /\ SpecRank[e.level] >= SpecRank[f.min_level]
    /\ f.categories = {} \/ e.category \in f.categories
    /\ f.actors = {} \/ e.actor \in f.actors
    /\ e.actor \notin f.exclude_actors
    /\ \/ f.compliance_frameworks = {}
       \/ \E w \in f.compliance_frameworks : w \in e.compliance_frameworks
    /\ \/ f.time_range = <<>>
       \/ /\ f.time_range[1] <= e.timestamp
          /\ e.timestamp <= f.time_range[2]

\* C17: an event is rejected on level exactly when its rank is below the
\* rank of the filter's min_level, in the order debug < info < warning <
\* error < critical < security = compliance, and the level check is ANDed
\* with the other criteria; with the filter min_level=ERROR an INFO event
\* is not persisted and does not come back from retrieve_events, and a
\* CRITICAL event whose store succeeded is persisted and comes back.
C17_SeverityOrderAndScenarioC ==
    Len(filters) = 1 =>
        \A id \in 1..Len(events) :
            /\ LevelRejects(events[id], filters[1])
                   <=> SpecRank[events[id].level]
                           < SpecRank[filters[1].min_level]
            /\ id \in admitted <=> PassesEveryCriterion(filters[1], events[id])
            /\ filters[1] = MinErrorFilter =>
                  \A r \in RetrieveEvents(FALSE, MatchAllFilter, Len(events)) :
                      /\ events[id].level = "info" =>
                            /\ id \notin HeldIds
                            /\ id \notin Range(EventIds(r))
                      /\ (events[id].level = "critical"
                          /\ \E i \in 1..Len(storeCalls) :
                                 storeCalls[i].e = id /\ storeCalls[i].ok) =>
                            /\ id \in HeldIds
                            /\ id \in Range(EventIds(r))

\* scenario C: under min_level=ERROR an INFO event was logged and is not
\* held, and a CRITICAL event logged after it is held
C17_Witness ==
    /\ filters = <<MinErrorFilter>>
    /\ \E i, j \in 1..Len(events) :
          /\ i < j
          /\ events[i].level = "info" /\ i \in returned /\ i \notin HeldIds
          /\ events[j].level = "critical" /\ j \in HeldIds

-----------------------------------------------------------------------------
(* C18 *)

\* C18: store_event raises nothing on either backend: a call that fails
\* reports False and leaves the event out of the backend, a call that
\* succeeds reports True and the backend holds the event, whatever
\* failed before it; and the log_event that made the call returns.
C18_StoreEventNeverRaises ==
    [][/\ raisedTo' = {}
       /\ Len(storeCalls') > Len(storeCalls) =>
             LET c == storeCalls'[Len(storeCalls')]
             IN /\ c.e \in returned'
                /\ c.ok <=> c.e \in HeldIds']_vars

\* a store_event failed and the store_event of the next event succeeded
C18_Witness ==
    \E i \in 1..Len(storeCalls) :
        /\ i < Len(storeCalls)
        /\ ~storeCalls[i].ok
        /\ storeCalls[i].e \in returned
        /\ storeCalls[i].e \notin HeldIds
        /\ storeCalls[i + 1].ok
        /\ storeCalls[i + 1].e \in HeldIds

-----------------------------------------------------------------------------
(* C19 *)

\* the ids of the held records that decode
WellFormedIds ==
    {r.event_id : r \in {r \in rows : Decodable(r)}}
    \cup UNION {{g.lines[i].event_id :
                    i \in {i \in 1..Len(g.lines) : Decodable(g.lines[i])}} :
                g \in files}

\* C19: on either backend, when a stored record cannot be decoded,
\* retrieve_events still returns every well-formed record and
\* get_event_count still counts every one of them.
C19_MalformedRecordSkipped ==
    backend \in {"file", "db"} =>
        /\ \A r \in RetrieveEvents(FALSE, MatchAllFilter, Len(events)) :
               WellFormedIds \subseteq Range(EventIds(r))
        /\ GetEventCount(FALSE, MatchAllFilter) >= Cardinality(WellFormedIds)

-----------------------------------------------------------------------------
(* Rotation of the file backend: one synchronous logger over a             *)
(* FileAuditStorage with a small max_file_size, logging long enough for    *)
(* two rotations.                                                          *)

RotationInit ==
    /\ async_logging = FALSE
    /\ filters = <<>>
    /\ InitLogger
    /\ backend = "file"
    /\ compress_old_files \in BOOLEAN
    /\ now = 0
    /\ files = {}
    /\ current_file = InitializeCurrentFile(0)
    /\ rows = {}
    /\ lastCleanup = NoCleanup
    /\ evicted = {}
    /\ file_lock = "free"
    /\ cleaner = NoCleaner

RotationInputs ==
    {LogArgs("info", "data_access", "read", "alice", "records", "success")}

RotationLog ==
    \E a \in RotationInputs, ok \in BOOLEAN :
        SyncLogEventUpTo(a, ok, MaxRotationEvents)

RotationNext == RotationLog \/ ClockTick

RotationSpec == RotationInit /\ [][RotationNext]_vars

\* the ids whose store_event returned True
StoredOk == {storeCalls[i].e : i \in {k \in DOMAIN storeCalls :
                                        storeCalls[k].ok}}

\* C21: rotation happens before the write: a file that has reached
\* max_file_size is never appended to (no file holds more lines than
\* max_file_size), and with compress_old_files set the only uncompressed
\* file is the current one
C21_RotatesBeforeWriting ==
    backend = "file" =>
        \A g \in files :
            /\ Len(g.lines) <= MaxFileSize
            /\ (compress_old_files /\ ~g.gz) => g.name = current_file

\* C28: apart from the files removed by the max_files retention step,
\* every event whose store_event returned True is still held by the log
\* directory, whatever the number of rotations
C28_RotationLosesNoEvent ==
    backend = "file" => (StoredOk \ evicted) \subseteq LinesIds(files)

\* C29: the log directory never holds more than max_files files once
\* store_event has returned
C29_FileCountBounded ==
    backend = "file" => Cardinality(files) <= MaxFiles

-----------------------------------------------------------------------------
(* Concurrent writers of one backend: caller threads (of one synchronous   *)
(* logger, or of several loggers built over the same storage object) run   *)
(* log_event at the same time.  store_event is entered through the         *)
(* backend's lock: "with self.file_lock" / "with self.db_lock".            *)

LockNeverHeld(l) == TRUE

\* threading.Lock.acquire returns only while no thread holds the lock
LockFree(l) == l = "free"

\* the body of store_event is being executed by thread c
InBody(c) == pc[c] \in {"locked", "written"}

\* "with self.file_lock:" / "with self.db_lock:" is entered
StoreAcquire(c) ==
    /\ pc[c] = "handlers"
    /\ hidx[c] > Len(event_handlers)
    /\ ~async_logging
    /\ LockFree(file_lock)
    /\ file_lock' = c
    /\ pc' = [pc EXCEPT ![c] = "locked"]
    /\ UNCHANGED <<configVars, event_handlers, queueVars, workerVars,
                   shutdownVars, cur, hidx, eventVars, calls, outcomeVars,
                   storeCalls, lastCall, backend, now, compress_old_files,
                   files, current_file, rows, lastCleanup, evicted, cleaner>>

\* the body under the lock: rotation check and append, or INSERT and commit
StoreBody(c, ok) ==
    /\ pc[c] = "locked"
    /\ StoreOutcome(ok)
    /\ storeCalls' = Append(storeCalls, [e |-> cur[c], ok |-> ok, by |-> c])
    /\ StoreEvent(events[cur[c]], ok)
    /\ pc' = [pc EXCEPT ![c] = "written"]
    /\ lastCleanup' = [lastCleanup EXCEPT !.fresh = FALSE]
    /\ UNCHANGED <<configVars, event_handlers, queueVars, workerVars,
                   shutdownVars, cur, hidx, eventVars, calls, outcomeVars,
                   lastCall, backend, now, compress_old_files, lockVars>>

\* the "with" block is left, by return True or by the caught exception,
\* and log_event returns the event id
StoreReturn(c) ==
    /\ pc[c] = "written"
    /\ file_lock' = "free"
    /\ returned' = returned \cup {cur[c]}
    /\ pc' = [pc EXCEPT ![c] = "idle"]
    /\ cur' = [cur EXCEPT ![c] = 0]
    /\ hidx' = [hidx EXCEPT ![c] = 0]
    /\ UNCHANGED <<configVars, event_handlers, queueVars, workerVars,
                   shutdownVars, eventVars, calls, dropped, raisedTo,
                   storeCalls, lastCall, backend, now, compress_old_files,
                   files, current_file, rows, lastCleanup, evicted, cleaner>>

WriterBegin == \E c \in Callers, a \in PipeInputs : LogEventBegin(c, a)

WriterStore ==
    \E c \in Callers :
        \/ StoreAcquire(c)
        \/ \E ok \in BOOLEAN : StoreBody(c, ok)
        \/ StoreReturn(c)

WriterInit ==
    /\ async_logging = FALSE
    /\ filters = <<>>
    /\ InitLogger
    /\ backend \in {"file", "db"}
    /\ compress_old_files \in
           IF backend = "file" THEN BOOLEAN ELSE {TRUE}
    /\ now = 0
    /\ files = {}
    /\ current_file = InitializeCurrentFile(0)
    /\ rows = {}
    /\ lastCleanup = NoCleanup
    /\ evicted = {}
    /\ file_lock = "free"
    /\ cleaner = NoCleaner

WriterNext == WriterBegin \/ WriterStore

WriterSpec == WriterInit /\ [][WriterNext]_vars

-----------------------------------------------------------------------------
(* Construction and serialisation of events: log_event is called with     *)
(* every category that has a derivation rule, with targets that do and do *)
(* not name financial data, and with and without frameworks of the        *)
(* caller; the event is stored and read back.                             *)

DerivedCategories ==
    {"data_access", "data_modification", "system_configuration",
     "security_event", "authentication", "business_process"}

DerivedTargets == {"records", "financial_db", "Financial_Report"}

GivenFrameworks == {{}, {"hipaa"}}

DerivedInputs ==
    {[LogArgs("info", c, "read", "alice", t, "success")
         EXCEPT !.compliance_frameworks = g] :
        c \in DerivedCategories, t \in DerivedTargets, g \in GivenFrameworks}

\* log_event(..., compliance_frameworks=given) on a synchronous logger
\* whose backend stores the event; lastCall keeps the frameworks the
\* caller passed
DerivedLog ==
    \E a \in DerivedInputs :
        /\ SyncLogEventCore(a, TRUE, MaxDerivedEvents)
        /\ lastCall' = [entry |-> "log_event", kwargs |-> {},
                        outcome |-> "returned",
                        given |-> a.compliance_frameworks]

DerivedInit ==
    /\ StorageInit
    /\ filters = <<>>
    /\ compress_old_files = TRUE

DerivedNext == DerivedLog

DerivedSpec == DerivedInit /\ [][DerivedNext]_vars

\* the records the backend holds, decoded as retrieve_events decodes them
HeldEvents ==
    {FromDict(d) : d \in {r \in rows : Decodable(r)}}
    \cup UNION {{FromDict(g.lines[i]) :
                    i \in {k \in 1..Len(g.lines) : Decodable(g.lines[k])}} :
                g \in files}

\* C23: the event that log_event has just built carries the frameworks of
\* the caller and those of its category and target (GDPR for data access
\* and modification, SOX for system configuration and for a target that
\* contains "financial" in any case, ISO27001 + SOC2 + NIST for security
\* events, SOC2 + ISO27001 + PCI_DSS for authentication); fewer frameworks
\* of the caller give a subset, deriving again changes nothing, and the
\* event read back from storage carries the same set
C23_FrameworksDerived ==
    lastCall.entry = "log_event" =>
        LET e == events[Len(events)]
            tags == e.compliance_frameworks
        IN /\ lastCall.given \subseteq tags
           /\ e.category \in {"data_access", "data_modification"}
                  => "gdpr" \in tags
           /\ (\/ e.category = "system_configuration"
               \/ e.target \in {"financial_db", "Financial_Report"})
                  => "sox" \in tags
           /\ e.category = "security_event"
                  => {"iso27001", "soc2", "nist"} \subseteq tags
           /\ e.category = "authentication"
                  => {"soc2", "iso27001", "pci_dss"} \subseteq tags
           /\ \A g \in SUBSET lastCall.given :
                  AssignComplianceFrameworks(e.category, e.target, g)
                      \subseteq tags
           /\ AssignComplianceFrameworks(e.category, e.target, tags) = tags
           /\ \A r \in HeldEvents :
                  r.event_id = e.event_id => r.compliance_frameworks = tags

\* an event on "Financial_Report" with a framework of the caller was
\* stored: it carries the caller's HIPAA and the derived SOX
C23_Witness ==
    /\ lastCall.entry = "log_event"
    /\ lastCall.given = {"hipaa"}
    /\ \E r \in HeldEvents :
          /\ r.event_id = Len(events)
          /\ r.target = "Financial_Report"
          /\ r.category = "business_process"
          /\ r.compliance_frameworks = {"hipaa", "sox"}

-----------------------------------------------------------------------------
(* Serialisation round trip.  A Python value is kept with its type where   *)
(* the type decides its JSON text: json.dumps writes the bool False as     *)
(* "false" and the int 0 as "0", while False == 0 holds.  The list that    *)
(* to_dict makes of compliance_frameworks is in the iteration order of the *)
(* set, which depends on the hashes of the members and on the order in     *)
(* which the set was filled: any order is possible.                        *)

PyBool(b) == [type |-> "bool", value |-> IF b THEN 1 ELSE 0]

PyInt(n) == [type |-> "int", value |-> n]

\* Python's ==: a bool is an int
PyEq(x, y) == x.value = y.value

WithSensitiveData(e, v) ==
    [f \in DOMAIN e \cup {"sensitive_data"} |->
        IF f = "sensitive_data" THEN v ELSE e[f]]

\* the AuditEvent that log_event built: sensitive_data has its default
AsLogged(e) == WithSensitiveData(e, PyBool(FALSE))

\* _dict_to_event on a line of a log file: JSON false is the bool False
DictToEvent(d) == WithSensitiveData(FromDict(d), PyBool(FALSE))

\* _row_to_event on a row: sqlite3 returns the BOOLEAN column as the int 0
RowToEvent(d) == WithSensitiveData(FromDict(d), PyInt(0))

\* to_json: the texts the event can serialise to, one for each order in
\* which the set of frameworks can be listed
ToJson(ev) ==
    {[ev EXCEPT !.timestamp = IsoFormat(@), !.compliance_frameworks = s] :
        s \in Orderings(ev.compliance_frameworks)}

\* calculate_checksum: SHA-256 of to_json(); different texts are taken to
\* have different digests
CalculateChecksum(ev) == ToJson(ev)

\* the events read back from the backend
RoundTripped ==
    IF backend = "db"
    THEN {RowToEvent(d) : d \in {r \in rows : Decodable(r)}}
    ELSE UNION {{DictToEvent(g.lines[i]) :
                    i \in {k \in 1..Len(g.lines) : Decodable(g.lines[k])}} :
                g \in files}

\* C24: an event read back from the backend equals the event that was
\* logged, field by field, and its checksum is the checksum of the
\* original
C24_RoundTripKeepsEventAndChecksum ==
    \A r \in RoundTripped :
        LET e == AsLogged(events[r.event_id])
        IN /\ \A f \in DOMAIN e \ {"sensitive_data", "timestamp"} :
                  r[f] = e[f]
           /\ PyEq(r.sensitive_data, e.sensitive_data)
           /\ \A before \in CalculateChecksum(e),
                 after \in CalculateChecksum(r) : before = after

-----------------------------------------------------------------------------
(* generate_audit_report over a synchronous logger.  The log directory    *)
(* may hold an archive written by an earlier run of the program: eleven   *)
(* failed logins of eleven different actors.                              *)

ArchivedActors ==
    <<"u1", "u2", "u3", "u4", "u5", "u6", "u7", "u8", "u9", "u10", "u11">>

ArchivedLine(i) ==
    ToDict(MakeEvent(100 + i, 0,
                     LogAuthenticationArgs(ArchivedActors[i], "failure")))

Archive ==
    [name |-> -1, gz |-> TRUE, mtime |-> 0,
     lines |-> [i \in 1..Len(ArchivedActors) |-> ArchivedLine(i)]]

\* the number of positions of each key that occurs in a list of keys
Tally(keys) ==
    [k \in Range(keys) |-> Cardinality({i \in DOMAIN keys : keys[i] = k})]

IsDeniedAccess(e) == e.action = "access_denied"

\* failed_logins: ACCESS_DENIED events of category AUTHENTICATION
IsFailedLogin(e) ==
    e.action = "access_denied" /\ e.category = "authentication"

\* strftime("%Y-%m-%d") of a timestamp
DayOf(t) == t \div (TicksPerSecond * SecondsPerDay)

\* the index at which an actor first occurs: its place in events_by_actor
FirstSeen(es, actor) ==
    CHOOSE i \in DOMAIN es :
        /\ es[i].actor = actor
        /\ \A j \in 1..(i - 1) : es[j].actor # actor

\* sorted(events_by_actor.items(), key=count, reverse=True)[:10]: the sort
\* is stable, actors of equal count stay in dictionary order
TopActors(es) ==
    LET by_actor == Tally([i \in DOMAIN es |-> es[i].actor])
        Before(b, a) ==
            \/ by_actor[b] > by_actor[a]
            \/ /\ by_actor[b] = by_actor[a]
               /\ FirstSeen(es, b) < FirstSeen(es, a)
        top == {a \in DOMAIN by_actor :
                   Cardinality({b \in DOMAIN by_actor : Before(b, a)})
                       < TopActorsLimit}
    IN [a \in top |-> by_actor[a]]

Frameworks == {"gdpr", "sox", "hipaa", "pci_dss", "iso27001", "soc2", "nist"}

\* the dictionary generate_audit_report returns for the retrieved events
AuditReport(es) ==
    [total_events |-> Len(es),
     security_events |->
         Cardinality({i \in DOMAIN es : es[i].category = "security_event"}),
     failed_logins |->
         Cardinality({i \in DOMAIN es : IsFailedLogin(es[i])}),
     unique_actors |-> Cardinality({es[i].actor : i \in DOMAIN es}),
     events_by_level |-> Tally([i \in DOMAIN es |-> es[i].level]),
     events_by_category |-> Tally([i \in DOMAIN es |-> es[i].category]),
     top_actors |-> TopActors(es),
     events_by_day |-> Tally([i \in DOMAIN es |-> DayOf(es[i].timestamp)]),
     compliance_summary |->
         [fw \in Frameworks |->
             Cardinality({i \in DOMAIN es :
                             fw \in es[i].compliance_frameworks})]]

\* AuditLogger.generate_audit_report(days_back): one retrieve_events call
\* with a filter of defaults and the time range [now - days_back, now]
GenerateAuditReport(days_back) ==
    /\ pc["t1"] = "idle"
    /\ \E es \in RetrieveEvents(TRUE,
                                AuditFilter("info", {}, {}, {}, {},
                                            <<now - days_back, now>>),
                                ReportLimit) :
          lastCall' = [entry |-> "generate_audit_report", kwargs |-> {},
                       outcome |-> "returned", retrieved |-> es,
                       report |-> AuditReport(es)]
    /\ UNCHANGED <<pipeVars, storeVars>>

ReportInit ==
    /\ async_logging = FALSE
    /\ filters = <<>>
    /\ InitLogger
    /\ backend \in {"file", "db"}
    /\ compress_old_files = TRUE
    /\ now = 1
    /\ files \in IF backend = "file" THEN {{}, {Archive}} ELSE {{}}
    /\ current_file = InitializeCurrentFile(1)
    /\ rows = {}
    /\ lastCleanup = NoCleanup
    /\ evicted = {}
    /\ file_lock = "free"
    /\ cleaner = NoCleaner

ReportLog == \E a \in PipeInputs : SyncLogEvent(a, TRUE)

\* a report of the current instant, of the last instant or of all time
Report == \E days_back \in {0, 1, now} : GenerateAuditReport(days_back)

ReportNext == ReportLog \/ Report

ReportSpec == ReportInit /\ [][ReportNext]_vars

RECURSIVE SumOver(_, _)
\* the sum of the values of a function over a set of its arguments
SumOver(f, S) ==
    IF S = {} THEN 0
    ELSE LET x == CHOOSE y \in S : TRUE
         IN f[x] + SumOver(f, S \ {x})

\* C25: the report is an aggregation of the one retrieved sequence:
\* total_events is its length; the counts by level, by category and by
\* day each sum to it; unique_actors is the number of distinct actors;
\* failed_logins counts the authentication events with access_denied;
\* top_actors holds at most ten actors, none with a smaller count than an
\* actor left out; each framework's event_count is the number of events
\* tagged with it
C25_ReportAggregatesRetrieved ==
    lastCall.entry = "generate_audit_report" =>
        LET es == lastCall.retrieved
            rep == lastCall.report
            actors == {es[i].actor : i \in DOMAIN es}
            CountOf(a) == Cardinality({i \in DOMAIN es : es[i].actor = a})
        IN /\ rep.total_events = Len(es)
           /\ SumOver(rep.events_by_level, DOMAIN rep.events_by_level)
                  = rep.total_events
           /\ SumOver(rep.events_by_category,
                      DOMAIN rep.events_by_category) = rep.total_events
           /\ SumOver(rep.events_by_day, DOMAIN rep.events_by_day)
                  = rep.total_events
           /\ rep.unique_actors = Cardinality(actors)
           /\ rep.failed_logins =
                  Cardinality({i \in DOMAIN es :
                                  /\ es[i].category = "authentication"
                                  /\ es[i].action = "access_denied"})
           /\ DOMAIN rep.top_actors \subseteq actors
           /\ Cardinality(DOMAIN rep.top_actors) <= 10
           /\ Cardinality(DOMAIN rep.top_actors) =
                  IF Cardinality(actors) < 10 THEN Cardinality(actors)
                  ELSE 10
           /\ \A a \in DOMAIN rep.top_actors :
                  /\ rep.top_actors[a] = CountOf(a)
                  /\ \A b \in actors \ DOMAIN rep.top_actors :
                         CountOf(b) <= CountOf(a)
           /\ \A fw \in Frameworks :
                  rep.compliance_summary[fw] =
                      Cardinality({i \in DOMAIN es :
                                      fw \in es[i].compliance_frameworks})

\* a report over more than ten actors, with a security event that is an
\* access_denied but no failed login: top_actors was cut to ten
C25_Witness ==
    /\ lastCall.entry = "generate_audit_report"
    /\ lastCall.report.unique_actors > 10
    /\ Cardinality(DOMAIN lastCall.report.top_actors) = 10
    /\ \E i \in DOMAIN lastCall.retrieved :
          /\ lastCall.retrieved[i].category = "security_event"
          /\ lastCall.retrieved[i].action = "access_denied"
    /\ \E a \in DOMAIN lastCall.report.top_actors :
          lastCall.report.top_actors[a] >= 2
    /\ lastCall.report.failed_logins < lastCall.report.total_events

-----------------------------------------------------------------------------
(* Delivery on an asynchronous logger that is never shut down: callers    *)
(* log, the worker thread runs _process_events and time passes.  The      *)
(* worker thread is scheduled again and again (weak fairness), and so     *)
(* does time pass for its timed get.                                      *)

DeliveryNext == LogEvent \/ Worker \/ Tick

DeliverySpec ==
    Init /\ [][DeliveryNext]_vars /\ WF_vars(Worker) /\ WF_vars(Tick)

\* C26: without shutdown(), every event that log_event put into the queue
\* is eventually handed to storage.store_event, also after a store_event
\* that returned False
C26_EnqueuedIsEventuallyStored ==
    \A id \in 1..MaxEvents : (id \in Range(enqueued)) ~> (id \in Stored)

\* the worker handed an enqueued event to store_event after an earlier
\* store_event had failed, on a logger that was not shut down
C26_Witness ==
    /\ spc = "idle"
    /\ running
    /\ \E i, j \in DOMAIN storeCalls :
          /\ i < j
          /\ ~storeCalls[i].ok
          /\ storeCalls[j].e \in Range(enqueued)
          /\ storeCalls[j].by = "worker"

\* C27: once shutdown() has been called, an event that a later or
\* concurrent log_event puts into the queue does not stay there for ever:
\* it is eventually passed to storage.store_event or reported as dropped
C27_NoEventStrandedByShutdown ==
    \A id \in 1..MaxEvents :
        (spc # "idle" /\ id \in Range(enqueued) /\ id \notin atShutdown)
            ~> (id \in Stored \/ id \in dropped)

-----------------------------------------------------------------------------
(* cleanup_old_events running in one thread while another thread logs.    *)
(* The file backend's cleanup takes no lock: it lists the directory, and  *)
(* for each listed file reads its mtime (stat) and then unlinks it; the   *)
(* writer's store_event can run between any two of these steps.  The      *)
(* database backend's cleanup runs its DELETE inside "with self.db_lock". *)
(* One cleanup call is made in a behaviour.                               *)

FileKey(g) == <<g.name, g.gz>>

Listed(fs, key) == \E g \in fs : FileKey(g) = key

FileOf(fs, key) == CHOOSE g \in fs : FileKey(g) = key

\* cleanup_old_events(older_than) is called: glob() lists the directory,
\* in any order (file backend); the lock is taken (database backend)
CleanupBegin(older_than) ==
    /\ cleaner.pc = "idle"
    /\ IF backend = "file"
       THEN /\ \E s \in Orderings({FileKey(g) : g \in files}) :
                  cleaner' = [pc |-> "stat", older_than |-> older_than,
                              target |-> s, removed |-> {},
                              outcome |-> "running"]
            /\ UNCHANGED file_lock
       ELSE /\ LockFree(file_lock)
            /\ file_lock' = "cleaner"
            /\ cleaner' = [pc |-> "delete", older_than |-> older_than,
                           target |-> <<>>, removed |-> {},
                           outcome |-> "running"]
    /\ UNCHANGED <<pipeVars, lastCall, backend, now, compress_old_files,
                   files, current_file, rows, lastCleanup, evicted>>

\* log_file.stat().st_mtime of the next listed file: older than the
\* cutoff or not; a file that is gone by now raises FileNotFoundError out
\* of cleanup_old_events
CleanupStat ==
    /\ cleaner.pc = "stat"
    /\ cleaner.target # <<>>
    /\ LET key == Head(cleaner.target)
       IN cleaner' =
              IF ~Listed(files, key)
              THEN [cleaner EXCEPT !.pc = "done", !.outcome = "raised"]
              ELSE IF FileOf(files, key).mtime < cleaner.older_than
                   THEN [cleaner EXCEPT !.pc = "unlink"]
                   ELSE [cleaner EXCEPT !.target = Tail(@)]
    /\ UNCHANGED <<pipeVars, lastCall, backend, now, compress_old_files,
                   files, current_file, rows, lastCleanup, evicted,
                   file_lock>>

\* log_file.unlink(): the file goes with whatever it holds by now
CleanupUnlink ==
    /\ cleaner.pc = "unlink"
    /\ LET key == Head(cleaner.target)
       IN IF Listed(files, key)
          THEN /\ files' = files \ {FileOf(files, key)}
               /\ cleaner' =
                      [cleaner EXCEPT
                          !.pc = "stat",
                          !.target = Tail(@),
                          !.removed = @ \cup LinesIds({FileOf(files, key)})]
          ELSE /\ cleaner' = [cleaner EXCEPT !.pc = "done",
                                             !.outcome = "raised"]
               /\ UNCHANGED files
    /\ UNCHANGED <<pipeVars, lastCall, backend, now, compress_old_files,
                   current_file, rows, lastCleanup, evicted, file_lock>>

\* the loop over the listed files is over: return cleaned_count
CleanupReturn ==
    /\ cleaner.pc = "stat"
    /\ cleaner.target = <<>>
    /\ cleaner' = [cleaner EXCEPT !.pc = "done", !.outcome = "returned"]
    /\ UNCHANGED <<pipeVars, lastCall, backend, now, compress_old_files,
                   files, current_file, rows, lastCleanup, evicted,
                   file_lock>>

\* DELETE FROM audit_events WHERE timestamp < ?, commit, and the lock is
\* released
CleanupDelete ==
    /\ cleaner.pc = "delete"
    /\ LET gone == {r \in rows :
                       ~IsoLeq(IsoFormat(cleaner.older_than), r.timestamp)}
       IN /\ rows' = rows \ gone
          /\ cleaner' = [cleaner EXCEPT
                            !.pc = "done", !.outcome = "returned",
                            !.removed = {r.event_id : r \in gone}]
    /\ file_lock' = "free"
    /\ UNCHANGED <<pipeVars, lastCall, backend, now, compress_old_files,
                   files, current_file, lastCleanup, evicted>>

Cleaner ==
    \/ \E older_than \in 0..now : CleanupBegin(older_than)
    \/ CleanupStat
    \/ CleanupUnlink
    \/ CleanupReturn
    \/ CleanupDelete

RaceBegin == \E a \in RotationInputs : LogEventBegin("t1", a)

RaceStore ==
    \/ StoreAcquire("t1")
    \/ \E ok \in BOOLEAN : StoreBody("t1", ok)
    \/ StoreReturn("t1")

RaceNext == RaceBegin \/ RaceStore \/ Cleaner \/ ClockTick

RaceSpec == WriterInit /\ [][RaceNext]_vars

\* the cleanup thread is between its first and its last step
InCleanup == cleaner.pc \in {"stat", "unlink", "delete"}

\* no thread is inside store_event while the cleanup runs
CleanupExcludesStore == \A c \in Callers : ~(InBody(c) /\ InCleanup)

\* C30: cleanup_old_events does not race with store_event: a cleanup
\* that runs while another thread stores never removes an event that
\* store_event stored with True and whose timestamp is not older than
\* the cutoff
C30_CleanupKeepsConcurrentStores ==
    \A id \in cleaner.removed \cap StoredOk :
        events[id].timestamp < cleaner.older_than

=============================================================================
